---- MODULE Spec2Model ----
(***************************************************************************)
(* State-machine model of OracleReader (src/src/OracleReader.cpp): the     *)
(* log-source scheduler OracleReader::run, the checkpoint file written by  *)
(* writeCheckpoint and read by readCheckpoint, and the bootstrap done by   *)
(* initialize.  The redo parser (OracleReaderRedo::processLog, reload,     *)
(* clone), the transaction store and the database are the environment:     *)
(* their results are inputs chosen from small sets.                        *)
(***************************************************************************)
EXTENDS Integers, Sequences, FiniteSets, TLC

VARIABLES
    pc,                 \* position of the reader thread
    shutdown,           \* Thread::shutdown, set by another thread
    conn,               \* conn != nullptr
    databaseSequence,   \* next sequence the scheduler expects
    databaseScn,
    resetlogs,
    onlineRedoSet,      \* group -> sequence of the handle of that group
    archiveRedoQueue,   \* priority queue, smallest sequence first
    redo,               \* local of run(): nullptr, an online handle, or the queue's top
    ret,                \* local of run(): result of the last processLog
    logsProcessed,      \* local of run()
    transactionHeap,    \* firstSequence of every open transaction, heap[1..heapSize]
    file,               \* contents of <database>.json on disk
    clock,              \* clock() / CLOCKS_PER_SEC
    previousCheckpoint,
    wc,                 \* frame of the writeCheckpoint call in progress
    saving,             \* history: the file before / after the save that has truncated it,
                        \* and whether the last writeCheckpoint could not open the file
    lastSave,           \* history: the caller of the last save that wrote the file
    currentResetlogs,   \* local of initialize(): RESETLOGS_ID as read, 0 while not read
    codec,              \* a buffer and a value the codec functions are applied to
    inventory,          \* the rows of a V$LOGFILE query and what onlineLogGetList makes of them
    tables,             \* what the last addTable call did with the rows of its query
    objectMap,          \* objn -> descriptor (NullObject for nullptr)
    inserted,           \* history: objn -> the first and the latest descriptor given to addToDict
    looked              \* history: the last checkDict call and what it returned

(* the state of the reader thread and of the checkpoint file *)
readerVars == <<pc, shutdown, conn, databaseSequence, databaseScn, resetlogs,
                onlineRedoSet, archiveRedoQueue, redo, ret, logsProcessed,
                transactionHeap, file, clock, previousCheckpoint, wc, saving, lastSave,
                currentResetlogs>>

(* the catalog *)
catalogVars == <<objectMap, inserted, looked, tables>>

vars == <<pc, shutdown, conn, databaseSequence, databaseScn, resetlogs,
          onlineRedoSet, archiveRedoQueue, redo, ret, logsProcessed,
          transactionHeap, file, clock, previousCheckpoint, wc, saving, lastSave,
          currentResetlogs, codec, inventory, objectMap, inserted, looked, tables>>

----------------------------------------------------------------------------
(* Bounds of the model *)

MaxSeq == 3        \* largest log sequence number
MaxTx == 2         \* largest number of open transactions
MaxArch == 2       \* largest number of rows of one archived-log query
MaxClock == 2      \* largest value of the clock
MaxGroup == 3      \* largest online log group number
MaxRows == 3       \* largest number of rows of one V$LOGFILE query
MaxObjn == 2       \* largest object number
MaxObjects == 3    \* number of distinct descriptors with one object number
MaxTables == 2     \* largest number of rows of one SYS.TAB$ query

(* typeseq minSequence = 0xFFFFFFFF: the all-ones value of typeseq, kept as *)
(* the all-ones value of a narrower word so that it stays above MaxSeq.     *)
NoMinSequence == 255

(* The configured checkpoint interval in seconds (constructor argument).    *)
checkpointInterval == 1

database == "DB1"

REDO_OK == "REDO_OK"
REDO_WRONG_SEQUENCE_SWITCHED == "REDO_WRONG_SEQUENCE_SWITCHED"
REDO_ERROR == "REDO_ERROR"
RedoResults == {REDO_OK, REDO_WRONG_SEQUENCE_SWITCHED, REDO_ERROR}


----------------------------------------------------------------------------
(* The checkpoint file *)

AbsentFile == [kind |-> "absent", database |-> "", sequence |-> 0, scn |-> 0, resetlogs |-> 0]
EmptyFile == [kind |-> "empty", database |-> "", sequence |-> 0, scn |-> 0, resetlogs |-> 0]
MalformedFile == [kind |-> "malformed", database |-> "", sequence |-> 0, scn |-> 0, resetlogs |-> 0]

JsonFile(db, seq, scn, rl) ==
    [kind |-> "json", database |-> db, sequence |-> seq, scn |-> scn, resetlogs |-> rl]

NoCheckpoint == [sequence |-> 0, scn |-> 0, resetlogs |-> 0]

(* variant of ReadCheckpoint: the database name of the file is not compared *)
ReadCheckpoint_AnyDatabase(f) ==
    IF f.kind = "json"
    THEN [sequence |-> f.sequence, scn |-> f.scn, resetlogs |-> f.resetlogs]
    ELSE NoCheckpoint

(* readCheckpoint: what the constructor loads from the file; the fields    *)
(* keep their constructed value 0 on every early return.                   *)
ReadCheckpoint(f) ==
    IF f.kind = "absent" THEN NoCheckpoint
    ELSE IF f.kind = "empty" \/ f.kind = "malformed" THEN NoCheckpoint
    ELSE IF f.database # database THEN NoCheckpoint
    ELSE [sequence |-> f.sequence, scn |-> f.scn, resetlogs |-> f.resetlogs]

(* writeCheckpoint, first loop: the smallest firstSequence of the heap, *)
(* or databaseSequence when the loop left minSequence at 0xFFFFFFFF.    *)
RECURSIVE MinFirstSequence(_, _, _)
MinFirstSequence(heap, i, min) ==
    IF i > Len(heap) THEN min
    ELSE MinFirstSequence(heap, i + 1, IF min > heap[i] THEN heap[i] ELSE min)

(* variants of MinSequence: the heap is not consulted; the last entry of  *)
(* the heap is taken for its smallest                                     *)
MinSequence_Cursor(heap, seq) == seq

MinSequence_Last(heap, seq) ==
    IF heap = <<>> THEN seq ELSE heap[Len(heap)]

MinSequence(heap, seq) ==
    LET m == MinFirstSequence(heap, 1, NoMinSequence)
    IN  IF m = NoMinSequence THEN seq ELSE m

(* writeCheckpoint: the text streamed into the file. *)
CheckpointRecord(minSequence, scn, rl) ==
    JsonFile(database, minSequence, scn, rl)

NoWc == [atShutdown |-> FALSE, ret |-> "none", minSequence |-> 0]
NoSave == [active |-> FALSE, before |-> AbsentFile, after |-> AbsentFile, failed |-> FALSE]

----------------------------------------------------------------------------
(* Handles *)

NoRedo == [kind |-> "none", group |-> 0]
OnlineRedo(g) == [kind |-> "online", group |-> g]
ArchRedo == [kind |-> "arch", group |-> 0]

ArchHandle(seq) == [sequence |-> seq, cloned |-> FALSE]

(* redo->sequence for the handle a pointer of run() designates *)
SequenceOf(r, online, queue) ==
    IF r.kind = "online" THEN online[r.group]
    ELSE IF r.kind = "arch" /\ queue # <<>> THEN Head(queue).sequence
    ELSE 0

(* variant of OracleReaderRedoCompare: the larger sequence comes first *)
OracleReaderRedoCompare_Reverse(p1, p2) == p1.sequence < p2.sequence

(* OracleReaderRedoCompare: p1 is below p2 in the queue when its sequence is larger *)
OracleReaderRedoCompare(p1, p2) == p1.sequence > p2.sequence

(* archiveRedoQueue.push: the queue is kept as the order in which top/pop  *)
(* hand the handles out.                                                   *)
RECURSIVE QueuePush(_, _)
QueuePush(queue, h) ==
    IF queue = <<>> THEN <<h>>
    ELSE IF OracleReaderRedoCompare(Head(queue), h) THEN <<h>> \o queue
    ELSE <<Head(queue)>> \o QueuePush(Tail(queue), h)

RECURSIVE QueuePushAll(_, _)
QueuePushAll(queue, seqs) ==
    IF seqs = <<>> THEN queue
    ELSE QueuePushAll(QueuePush(queue, ArchHandle(Head(seqs))), Tail(seqs))

----------------------------------------------------------------------------
(* Inputs from the environment *)

(* The checkpoint files the reader may find when it is constructed. *)
InitFiles ==
    {AbsentFile, MalformedFile, JsonFile("DB2", 2, 2, 1),
     JsonFile(database, 1, 2, 1), JsonFile(database, 2, 2, 2),
     JsonFile(database, 2, 0, 1)}

(* What the database answers to the queries of initialize: curSeq = 0     *)
(* stands for a V$LOG query that yields no row or throws.                  *)
LiveDbs ==
    [connect : BOOLEAN, row : BOOLEAN, logMode : {"ARCHIVELOG", "NOARCHIVELOG"},
     suppLog : {"YES", "NO"}, scn : {2}, resetlogs : {1}, curSeq : {0, 1}]

(* The rows (GROUP#, member exists on disk) of the V$LOGFILE query. *)
OnlineRows ==
    {<<>>,
     <<[group |-> 1, exists |-> TRUE], [group |-> 2, exists |-> TRUE]>>,
     <<[group |-> 1, exists |-> FALSE], [group |-> 1, exists |-> TRUE],
       [group |-> 2, exists |-> TRUE]>>,
     <<[group |-> 1, exists |-> TRUE], [group |-> 2, exists |-> FALSE]>>,
     <<[group |-> 1, exists |-> FALSE], [group |-> 2, exists |-> TRUE]>>}

(* The SEQUENCE# column of the V$ARCHIVED_LOG query: rows with            *)
(* SEQUENCE# >= from, ordered by SEQUENCE#; a sequence is listed once per  *)
(* archive destination.  A query that throws yields the rows fetched so   *)
(* far, which is a shorter list of the same set.                          *)
ArchiveRows(from) ==
    {<<>>} \cup
    UNION {{s \in [1..n -> from..MaxSeq] : \A i \in 1..n, j \in 1..n : i < j => s[i] <= s[j]}
           : n \in 1..MaxArch}

(* OracleReaderRedo::reload of every handle: each handle shows the        *)
(* sequence its file holds now (0 is the value before the first reload).  *)
Reloaded(online) == [DOMAIN online -> 1..MaxSeq]

----------------------------------------------------------------------------
(* initialize *)

(* variant of IncarnationMismatch: a checkpoint without resetlogs is *)
(* refused as well                                                   *)
IncarnationMismatch_ZeroRefused(rl, current) == current # rl

(* the incarnation test: resetlogs != 0 && currentResetlogs != resetlogs *)
IncarnationMismatch(rl, current) == rl # 0 /\ current # rl

(* variant of NeedsResolve: only a missing sequence is resolved *)
NeedsResolve_SequenceOnly(seq, scn) == seq = 0

(* the test before the V$LOG query: databaseSequence == 0 || databaseScn == 0 *)
NeedsResolve(seq, scn) == seq = 0 \/ scn = 0

(* current is the local currentResetlogs: 0 while it has not been read. *)
InitializeResult(seq, scn, rl, connected, live) ==
    LET refuse == [ok |-> FALSE, sequence |-> seq, scn |-> scn, resetlogs |-> rl,
                   current |-> 0]
    IN  IF ~connected THEN refuse
        ELSE IF ~live.row THEN refuse
        ELSE IF live.logMode # "ARCHIVELOG" THEN refuse
        ELSE IF live.suppLog # "YES" THEN refuse
        ELSE IF IncarnationMismatch(rl, live.resetlogs)
        THEN [refuse EXCEPT !.current = live.resetlogs]
        ELSE LET resolve == NeedsResolve(seq, scn) /\ live.curSeq # 0
                 seq2 == IF resolve THEN live.curSeq ELSE seq
                 scn2 == IF resolve THEN live.scn ELSE scn
             IN  [ok |-> ~(seq2 = 0 \/ scn2 = 0), sequence |-> seq2, scn |-> scn2,
                  resetlogs |-> live.resetlogs, current |-> live.resetlogs]

(* onlineLogGetList: the loop over the rows.  A handle is the group and *)
(* the member (the row) whose path it was opened on.                   *)
RECURSIVE OnlineLogGetListLoop(_, _, _, _, _)
OnlineLogGetListLoop(rows, i, groupLast, group, found) ==
    IF i > Len(rows)
    THEN [thrown |-> FALSE, group |-> group, groupLast |-> groupLast, handles |-> found]
    ELSE LET groupPrev == group
             g == rows[i].group
         IN  IF groupPrev # groupLast /\ g # groupPrev
             THEN [thrown |-> TRUE, group |-> g, groupLast |-> groupLast, handles |-> found]
             ELSE IF g # groupLast /\ rows[i].exists
                  THEN OnlineLogGetListLoop(rows, i + 1, g, g,
                                            found \cup {[group |-> g, member |-> i]})
                  ELSE OnlineLogGetListLoop(rows, i + 1, groupLast, g, found)

(* variant of OnlineLogGetListResult: the test after the loop is left out *)
OnlineLogGetListResult_NoFinalTest(rows) ==
    LET l == OnlineLogGetListLoop(rows, 1, -1, -1, {})
    IN  [thrown |-> l.thrown, handles |-> l.handles,
         groups |-> {h.group : h \in l.handles}]

(* onlineLogGetList: the loop and the test after it (group != groupLast) *)
OnlineLogGetListResult(rows) ==
    LET l == OnlineLogGetListLoop(rows, 1, -1, -1, {})
    IN  [thrown |-> l.thrown \/ l.group # l.groupLast, handles |-> l.handles,
         groups |-> {h.group : h \in l.handles}]

----------------------------------------------------------------------------
(* Construction *)

(* the codec and the catalog while they are not under study *)
NoCodec == [phase |-> "none"]
NoInventory == [phase |-> "none"]
NullObject == [objn |-> 0, id |-> 0]
NoLookup == [objn |-> 0, object |-> NullObject]
NoTables == [called |-> FALSE, failed |-> FALSE, added |-> {}, skipped |-> {}]

Constructed(f) ==
    /\ pc = "constructed"
    /\ shutdown = FALSE
    /\ conn = FALSE
    /\ databaseSequence = ReadCheckpoint(f).sequence
    /\ databaseScn = ReadCheckpoint(f).scn
    /\ resetlogs = ReadCheckpoint(f).resetlogs
    /\ onlineRedoSet = <<>>
    /\ archiveRedoQueue = <<>>
    /\ redo = NoRedo
    /\ ret = REDO_OK
    /\ logsProcessed = FALSE
    /\ transactionHeap = <<>>
    /\ file = f
    /\ clock = 0
    /\ previousCheckpoint = 0
    /\ wc = NoWc
    /\ saving = NoSave
    /\ lastSave = "none"
    /\ currentResetlogs = 0
    /\ objectMap = <<>>
    /\ inserted = <<>>
    /\ looked = NoLookup
    /\ tables = NoTables

Init ==
    /\ \E f \in InitFiles : Constructed(f)
    /\ codec = NoCodec
    /\ inventory = NoInventory

----------------------------------------------------------------------------
(* Decisions of run() *)

(* variant of Candidates: a handle with a larger sequence is taken as well *)
Candidates_AtLeast(online, seq) == {g \in DOMAIN online : online[g] >= seq}

(* the handles with sequence == databaseSequence *)
Candidates(online, seq) == {g \in DOMAIN online : online[g] = seq}

(* variant of IsHigher: no handle counts as higher *)
IsHigher_Never(online, seq) == FALSE

(* variant of IsHigher: a handle with any other sequence counts *)
IsHigher_Other(online, seq) == \E g \in DOMAIN online : online[g] # seq

(* isHigher: some handle has sequence > databaseSequence *)
IsHigher(online, seq) == \E g \in DOMAIN online : online[g] > seq

(* variant of CloneNeeded: redoPrev has to be a handle of the archive queue *)
CloneNeeded_FromArchive(result, redoPrev, prevSequence, topSequence) ==
    result = REDO_WRONG_SEQUENCE_SWITCHED /\ redoPrev.kind = "arch" /\ prevSequence = topSequence

(* the condition under which the archive loop clones redoPrev into redo *)
CloneNeeded(result, redoPrev, prevSequence, topSequence) ==
    result = REDO_WRONG_SEQUENCE_SWITCHED /\ redoPrev.kind # "none" /\ prevSequence = topSequence

(* variant of ArchiveStep: the test for a missing sequence is left out *)
ArchiveStep_NoGapTest(topSequence, seq) ==
    IF topSequence < seq THEN "continue" ELSE "process"

(* what the archive loop does with the handle on top of the queue *)
ArchiveStep(topSequence, seq) ==
    IF topSequence < seq THEN "continue"
    ELSE IF topSequence > seq THEN "throw"
    ELSE "process"

(* the results of processLog on an online log after which run() throws *)
OnlineFatal(r) == r # REDO_OK /\ r # REDO_WRONG_SEQUENCE_SWITCHED

(* variant of ArchiveFatal: the archive loop tolerates what the online loop does *)
ArchiveFatal_AsOnline(r) == r # REDO_OK /\ r # REDO_WRONG_SEQUENCE_SWITCHED

(* the results of processLog on an archived log after which run() throws *)
ArchiveFatal(r) == r # REDO_OK

(* ++databaseSequence *)
NextSequence(seq) == seq + 1

(* checkForCheckpoint: timeSinceCheckpoint > checkpointInterval *)
CheckpointDue(now, previous) == now - previous > checkpointInterval

(* variant of OpenFailed: the time of the call is kept as the time of *)
(* the last checkpoint                                                *)
OpenFailed_Stamped(previous, now) == now

(* writeCheckpoint when the file is not open: it returns before          *)
(* previousCheckpoint = now; the value previousCheckpoint has afterwards *)
OpenFailed(previous, now) == previous

(* variant of CallWriteCheckpoint: the caller goes on without the call *)
CallWriteCheckpoint_Skipped(atShutdown, r) ==
    /\ pc' = r
    /\ wc' = wc

(* The call writeCheckpoint(atShutdown); r is where the caller continues. *)
CallWriteCheckpoint(atShutdown, r) ==
    /\ pc' = "wc_open"
    /\ wc' = [atShutdown |-> atShutdown, ret |-> r, minSequence |-> 0]

----------------------------------------------------------------------------
(* Bootstrap *)

Initialize ==
    /\ pc = "constructed"
    /\ \E live \in LiveDbs :
         LET connected == ~shutdown /\ live.connect
             r == InitializeResult(databaseSequence, databaseScn, resetlogs, connected, live)
         IN  /\ conn' = connected
             /\ databaseSequence' = r.sequence
             /\ databaseScn' = r.scn
             /\ resetlogs' = r.resetlogs
             /\ currentResetlogs' = r.current
             /\ pc' = IF r.ok THEN "run" ELSE "refused"
    /\ UNCHANGED <<shutdown, onlineRedoSet, archiveRedoQueue, redo, ret, logsProcessed,
                   transactionHeap, file, clock, previousCheckpoint, wc, saving, lastSave>>
    /\ UNCHANGED <<codec, inventory, objectMap, inserted, looked, tables>>

----------------------------------------------------------------------------
(* run() *)

(* checkConnection(true): one turn of its loop *)
CheckConnection ==
    /\ pc = "run"
    /\ IF shutdown
       THEN conn' = conn /\ pc' = "online_list"
       ELSE \E ok \in BOOLEAN :
              /\ conn' = (conn \/ ok)
              /\ pc' = IF conn' THEN "online_list" ELSE "run"
    /\ UNCHANGED <<shutdown, databaseSequence, databaseScn, resetlogs, onlineRedoSet,
                   archiveRedoQueue, redo, ret, logsProcessed, transactionHeap, file,
                   clock, previousCheckpoint, wc, saving, lastSave>>
    /\ UNCHANGED <<currentResetlogs, codec, inventory, objectMap, inserted, looked, tables>>

(* onlineLogGetList(), then ret = REDO_OK and redo = nullptr *)
OnlineLogGetList ==
    /\ pc = "online_list"
    /\ IF ~conn
       THEN pc' = "fatal" /\ UNCHANGED onlineRedoSet
       ELSE \E rows \in OnlineRows :
              LET r == OnlineLogGetListResult(rows)
              IN  IF r.thrown
                  THEN pc' = "fatal" /\ UNCHANGED onlineRedoSet
                  ELSE pc' = "loop_top" /\ onlineRedoSet' = [g \in r.groups |-> 0]
    /\ ret' = REDO_OK
    /\ redo' = NoRedo
    /\ UNCHANGED <<shutdown, conn, databaseSequence, databaseScn, resetlogs,
                   archiveRedoQueue, logsProcessed, transactionHeap, file,
                   clock, previousCheckpoint, wc, saving, lastSave>>
    /\ UNCHANGED <<currentResetlogs, codec, inventory, objectMap, inserted, looked, tables>>

(* top of the outer loop: the shutdown check and refreshOnlineLogs() *)
LoopTop ==
    /\ pc = "loop_top"
    /\ logsProcessed' = FALSE
    /\ IF shutdown
       THEN pc' = "exit" /\ UNCHANGED onlineRedoSet
       ELSE pc' = "online_search" /\ onlineRedoSet' \in Reloaded(onlineRedoSet)
    /\ UNCHANGED <<shutdown, conn, databaseSequence, databaseScn, resetlogs,
                   archiveRedoQueue, redo, ret, transactionHeap, file,
                   clock, previousCheckpoint, wc, saving, lastSave>>
    /\ UNCHANGED <<currentResetlogs, codec, inventory, objectMap, inserted, looked, tables>>

(* a candidate was found: the shutdown check before processLog *)
Dispatch(g) ==
    /\ redo' = OnlineRedo(g)
    /\ IF shutdown
       THEN pc' = "arch_list" /\ UNCHANGED logsProcessed
       ELSE pc' = "online_proc" /\ logsProcessed' = TRUE

(* top of the online loop: redo = nullptr and the search for the candidate *)
OnlineSearch ==
    /\ pc = "online_search"
    /\ IF Candidates(onlineRedoSet, databaseSequence) # {}
       THEN \E g \in Candidates(onlineRedoSet, databaseSequence) : Dispatch(g)
       ELSE redo' = NoRedo /\ pc' = "idle" /\ UNCHANGED logsProcessed
    /\ UNCHANGED <<shutdown, conn, databaseSequence, databaseScn, resetlogs, onlineRedoSet,
                   archiveRedoQueue, ret, transactionHeap, file,
                   clock, previousCheckpoint, wc, saving, lastSave>>
    /\ UNCHANGED <<currentResetlogs, codec, inventory, objectMap, inserted, looked, tables>>

(* one turn of the loop that waits for new redo *)
Idle ==
    /\ pc = "idle"
    /\ IF Candidates(onlineRedoSet, databaseSequence) # {}
       THEN /\ \E g \in Candidates(onlineRedoSet, databaseSequence) : Dispatch(g)
            /\ UNCHANGED onlineRedoSet
       ELSE IF IsHigher(onlineRedoSet, databaseSequence) \/ shutdown
       THEN pc' = "arch_list" /\ UNCHANGED <<redo, logsProcessed, onlineRedoSet>>
       ELSE /\ pc' = "idle"
            /\ onlineRedoSet' \in Reloaded(onlineRedoSet)
            /\ UNCHANGED <<redo, logsProcessed>>
    /\ UNCHANGED <<shutdown, conn, databaseSequence, databaseScn, resetlogs,
                   archiveRedoQueue, ret, transactionHeap, file,
                   clock, previousCheckpoint, wc, saving, lastSave>>
    /\ UNCHANGED <<currentResetlogs, codec, inventory, objectMap, inserted, looked, tables>>

(* redo->processLog() on an online log returns *)
OnlineReturn ==
    /\ pc = "online_proc"
    /\ \E r \in RedoResults :
         /\ ret' = r
         /\ IF OnlineFatal(r)
            THEN pc' = "fatal" /\ UNCHANGED <<databaseSequence, wc>>
            ELSE IF r = REDO_WRONG_SEQUENCE_SWITCHED
            THEN pc' = "arch_list" /\ UNCHANGED <<databaseSequence, wc>>
            ELSE IF shutdown
            THEN pc' = "arch_list" /\ UNCHANGED <<databaseSequence, wc>>
            ELSE /\ databaseSequence < MaxSeq
                 /\ databaseSequence' = NextSequence(databaseSequence)
                 /\ CallWriteCheckpoint(FALSE, "online_search")
    /\ UNCHANGED <<shutdown, conn, databaseScn, resetlogs, onlineRedoSet,
                   archiveRedoQueue, redo, logsProcessed, transactionHeap, file,
                   clock, previousCheckpoint, saving, lastSave>>
    /\ UNCHANGED <<currentResetlogs, codec, inventory, objectMap, inserted, looked, tables>>

(* the shutdown check before the archive phase, and archLogGetList() *)
ArchLogGetList ==
    /\ pc = "arch_list"
    /\ IF shutdown
       THEN pc' = "exit" /\ UNCHANGED archiveRedoQueue
       ELSE /\ pc' = "arch_loop"
            /\ \E rows \in ArchiveRows(databaseSequence) :
                 archiveRedoQueue' = QueuePushAll(archiveRedoQueue, rows)
    /\ UNCHANGED <<shutdown, conn, databaseSequence, databaseScn, resetlogs, onlineRedoSet,
                   redo, ret, logsProcessed, transactionHeap, file,
                   clock, previousCheckpoint, wc, saving, lastSave>>
    /\ UNCHANGED <<currentResetlogs, codec, inventory, objectMap, inserted, looked, tables>>

(* one turn of the archive loop up to processLog, or the end of the pass *)
ArchLoop ==
    /\ pc = "arch_loop"
    /\ IF archiveRedoQueue = <<>>
       THEN /\ pc' = IF shutdown THEN "exit" ELSE "loop_top"
            /\ UNCHANGED <<archiveRedoQueue, redo, logsProcessed>>
       ELSE LET top == Head(archiveRedoQueue)
                prevSequence == SequenceOf(redo, onlineRedoSet, archiveRedoQueue)
                step == ArchiveStep(top.sequence, databaseSequence)
            IN  /\ redo' = ArchRedo
                /\ archiveRedoQueue' =
                     IF CloneNeeded(ret, redo, prevSequence, top.sequence)
                     THEN [archiveRedoQueue EXCEPT ![1].cloned = TRUE]
                     ELSE archiveRedoQueue
                /\ IF step = "continue" THEN pc' = "arch_loop" /\ UNCHANGED logsProcessed
                   ELSE IF step = "throw" THEN pc' = "fatal" /\ UNCHANGED logsProcessed
                   ELSE IF shutdown THEN pc' = "exit" /\ UNCHANGED logsProcessed
                   ELSE pc' = "arch_proc" /\ logsProcessed' = TRUE
    /\ UNCHANGED <<shutdown, conn, databaseSequence, databaseScn, resetlogs, onlineRedoSet,
                   ret, transactionHeap, file, clock, previousCheckpoint, wc, saving, lastSave>>
    /\ UNCHANGED <<currentResetlogs, codec, inventory, objectMap, inserted, looked, tables>>

(* redo->processLog() on an archived log returns *)
ArchReturn ==
    /\ pc = "arch_proc"
    /\ \E r \in RedoResults :
         /\ ret' = r
         /\ IF ArchiveFatal(r)
            THEN pc' = "fatal" /\ UNCHANGED <<databaseSequence, wc>>
            ELSE /\ databaseSequence < MaxSeq
                 /\ databaseSequence' = NextSequence(databaseSequence)
                 /\ CallWriteCheckpoint(FALSE, "arch_pop")
    /\ UNCHANGED <<shutdown, conn, databaseScn, resetlogs, onlineRedoSet,
                   archiveRedoQueue, redo, logsProcessed, transactionHeap, file,
                   clock, previousCheckpoint, saving, lastSave>>
    /\ UNCHANGED <<currentResetlogs, codec, inventory, objectMap, inserted, looked, tables>>

(* archiveRedoQueue.pop(); delete redo; redo = nullptr *)
ArchPop ==
    /\ pc = "arch_pop"
    /\ archiveRedoQueue' = Tail(archiveRedoQueue)
    /\ redo' = NoRedo
    /\ pc' = "arch_loop"
    /\ UNCHANGED <<shutdown, conn, databaseSequence, databaseScn, resetlogs, onlineRedoSet,
                   ret, logsProcessed, transactionHeap, file,
                   clock, previousCheckpoint, wc, saving, lastSave>>
    /\ UNCHANGED <<currentResetlogs, codec, inventory, objectMap, inserted, looked, tables>>

(* after the outer loop: writeCheckpoint(true) *)
Exit ==
    /\ pc = "exit"
    /\ CallWriteCheckpoint(TRUE, "done")
    /\ UNCHANGED <<shutdown, conn, databaseSequence, databaseScn, resetlogs, onlineRedoSet,
                   archiveRedoQueue, redo, ret, logsProcessed, transactionHeap, file,
                   clock, previousCheckpoint, saving, lastSave>>
    /\ UNCHANGED <<currentResetlogs, codec, inventory, objectMap, inserted, looked, tables>>

----------------------------------------------------------------------------
(* writeCheckpoint *)

(* minSequence is computed and the file is opened with ios::trunc; when    *)
(* the open fails the call returns                                         *)
WriteCheckpointOpen ==
    /\ pc = "wc_open"
    /\ LET minSequence == MinSequence(transactionHeap, databaseSequence)
       IN  \E opened \in BOOLEAN :
             IF opened
             THEN /\ file' = EmptyFile
                  /\ wc' = [wc EXCEPT !.minSequence = minSequence]
                  /\ pc' = "wc_write"
                  /\ saving' = [active |-> TRUE, before |-> file,
                                after |-> CheckpointRecord(minSequence, databaseScn, resetlogs),
                                failed |-> FALSE]
                  /\ UNCHANGED previousCheckpoint
             ELSE /\ pc' = wc.ret
                  /\ wc' = NoWc
                  /\ previousCheckpoint' = OpenFailed(previousCheckpoint, clock)
                  /\ saving' = [NoSave EXCEPT !.failed = TRUE]
                  /\ UNCHANGED file
    /\ UNCHANGED <<shutdown, conn, databaseSequence, databaseScn, resetlogs, onlineRedoSet,
                   archiveRedoQueue, redo, ret, logsProcessed, transactionHeap,
                   clock, lastSave>>
    /\ UNCHANGED <<currentResetlogs, codec, inventory, objectMap, inserted, looked, tables>>

(* the record is streamed into the file, the file is closed and           *)
(* previousCheckpoint = now                                                *)
WriteCheckpointWrite ==
    /\ pc = "wc_write"
    /\ file' = CheckpointRecord(wc.minSequence, databaseScn, resetlogs)
    /\ previousCheckpoint' = clock
    /\ pc' = wc.ret
    /\ lastSave' = wc.ret
    /\ wc' = NoWc
    /\ saving' = NoSave
    /\ UNCHANGED <<shutdown, conn, databaseSequence, databaseScn, resetlogs, onlineRedoSet,
                   archiveRedoQueue, redo, ret, logsProcessed, transactionHeap, clock>>
    /\ UNCHANGED <<currentResetlogs, codec, inventory, objectMap, inserted, looked, tables>>

----------------------------------------------------------------------------
(* What happens while processLog runs *)

Processing == pc = "online_proc" \/ pc = "arch_proc"

(* a transaction begins in the log being read *)
OpenTransaction ==
    /\ Processing
    /\ Len(transactionHeap) < MaxTx
    /\ transactionHeap' =
         Append(transactionHeap, SequenceOf(redo, onlineRedoSet, archiveRedoQueue))
    /\ UNCHANGED <<pc, shutdown, conn, databaseSequence, databaseScn, resetlogs, onlineRedoSet,
                   archiveRedoQueue, redo, ret, logsProcessed, file,
                   clock, previousCheckpoint, wc, saving, lastSave>>
    /\ UNCHANGED <<currentResetlogs, codec, inventory, objectMap, inserted, looked, tables>>

(* a transaction commits or rolls back *)
CloseTransaction ==
    /\ Processing
    /\ \E i \in 1..Len(transactionHeap) :
         transactionHeap' = SubSeq(transactionHeap, 1, i - 1)
                            \o SubSeq(transactionHeap, i + 1, Len(transactionHeap))
    /\ UNCHANGED <<pc, shutdown, conn, databaseSequence, databaseScn, resetlogs, onlineRedoSet,
                   archiveRedoQueue, redo, ret, logsProcessed, file,
                   clock, previousCheckpoint, wc, saving, lastSave>>
    /\ UNCHANGED <<currentResetlogs, codec, inventory, objectMap, inserted, looked, tables>>

(* checkForCheckpoint(), called by the parser between records *)
CheckForCheckpoint ==
    /\ Processing
    /\ CheckpointDue(clock, previousCheckpoint)
    /\ CallWriteCheckpoint(FALSE, pc)
    /\ UNCHANGED <<shutdown, conn, databaseSequence, databaseScn, resetlogs, onlineRedoSet,
                   archiveRedoQueue, redo, ret, logsProcessed, transactionHeap, file,
                   clock, previousCheckpoint, saving, lastSave>>
    /\ UNCHANGED <<currentResetlogs, codec, inventory, objectMap, inserted, looked, tables>>

(* Time passes.  clock() is read by writeCheckpoint and checkForCheckpoint *)
(* only, so the time that passes elsewhere is counted while a log is read. *)
Tick ==
    /\ Processing
    /\ clock < MaxClock
    /\ clock' = clock + 1
    /\ UNCHANGED <<pc, shutdown, conn, databaseSequence, databaseScn, resetlogs, onlineRedoSet,
                   archiveRedoQueue, redo, ret, logsProcessed, transactionHeap, file,
                   previousCheckpoint, wc, saving, lastSave>>
    /\ UNCHANGED <<currentResetlogs, codec, inventory, objectMap, inserted, looked, tables>>

(* another thread asks the reader to stop *)
Stop ==
    /\ ~shutdown
    /\ pc \notin {"done", "fatal", "refused", "crashed"}
    /\ shutdown' = TRUE
    /\ UNCHANGED <<pc, conn, databaseSequence, databaseScn, resetlogs, onlineRedoSet,
                   archiveRedoQueue, redo, ret, logsProcessed, transactionHeap, file,
                   clock, previousCheckpoint, wc, saving, lastSave>>
    /\ UNCHANGED <<currentResetlogs, codec, inventory, objectMap, inserted, looked, tables>>

----------------------------------------------------------------------------

Next ==
    \/ Initialize
    \/ CheckConnection
    \/ OnlineLogGetList
    \/ LoopTop
    \/ OnlineSearch
    \/ Idle
    \/ OnlineReturn
    \/ ArchLogGetList
    \/ ArchLoop
    \/ ArchReturn
    \/ ArchPop
    \/ Exit
    \/ WriteCheckpointOpen
    \/ WriteCheckpointWrite
    \/ OpenTransaction
    \/ CloseTransaction
    \/ CheckForCheckpoint
    \/ Tick
    \/ Stop

Spec == Init /\ [][Next]_vars

----------------------------------------------------------------------------
(* The process dies and is started again *)

(* the process is killed: its memory is gone, the file stays as it is *)
Crash ==
    /\ pc \notin {"done", "fatal", "refused", "crashed"}
    /\ pc' = "crashed"
    /\ shutdown' = FALSE
    /\ conn' = FALSE
    /\ databaseSequence' = 0
    /\ databaseScn' = 0
    /\ resetlogs' = 0
    /\ onlineRedoSet' = <<>>
    /\ archiveRedoQueue' = <<>>
    /\ redo' = NoRedo
    /\ ret' = REDO_OK
    /\ logsProcessed' = FALSE
    /\ transactionHeap' = <<>>
    /\ clock' = 0
    /\ previousCheckpoint' = 0
    /\ wc' = NoWc
    /\ lastSave' = "none"
    /\ currentResetlogs' = 0
    /\ UNCHANGED <<file, saving>>
    /\ UNCHANGED <<codec, inventory, objectMap, inserted, looked, tables>>

(* a new process constructs the reader: the constructor runs readCheckpoint *)
Restart ==
    /\ pc = "crashed"
    /\ pc' = "constructed"
    /\ databaseSequence' = ReadCheckpoint(file).sequence
    /\ databaseScn' = ReadCheckpoint(file).scn
    /\ resetlogs' = ReadCheckpoint(file).resetlogs
    /\ saving' = NoSave
    /\ UNCHANGED <<shutdown, conn, onlineRedoSet, archiveRedoQueue, redo, ret, logsProcessed,
                   transactionHeap, file, clock, previousCheckpoint, wc, lastSave>>
    /\ UNCHANGED <<currentResetlogs, codec, inventory, objectMap, inserted, looked, tables>>

NextCrash ==
    \/ Next
    \/ Crash
    \/ Restart

SpecCrash == Init /\ [][NextCrash]_vars

----------------------------------------------------------------------------
(* The thread is started on a reader that has no connection *)

(* run() is entered on the reader as constructed: conn is nullptr and *)
(* the checkConnection(true) of run() is the first to connect         *)
RunUnconnected ==
    /\ pc = "constructed"
    /\ pc' = "run"
    /\ UNCHANGED <<shutdown, conn, databaseSequence, databaseScn, resetlogs, onlineRedoSet,
                   archiveRedoQueue, redo, ret, logsProcessed, transactionHeap, file,
                   clock, previousCheckpoint, wc, saving, lastSave>>
    /\ UNCHANGED <<currentResetlogs, codec, inventory, objectMap, inserted, looked, tables>>

NextUnconnected ==
    \/ Next
    \/ RunUnconnected

SpecUnconnected == Init /\ [][NextUnconnected]_vars

----------------------------------------------------------------------------
(* The reader thread keeps running (weak fairness of each of its steps),   *)
(* and a processLog call under way returns however often the parser calls  *)
(* checkForCheckpoint meanwhile (strong fairness of the two returns).      *)
Fairness ==
    /\ WF_vars(Initialize)
    /\ WF_vars(CheckConnection)
    /\ WF_vars(OnlineLogGetList)
    /\ WF_vars(LoopTop)
    /\ WF_vars(OnlineSearch)
    /\ WF_vars(Idle)
    /\ SF_vars(OnlineReturn)
    /\ WF_vars(ArchLogGetList)
    /\ WF_vars(ArchLoop)
    /\ SF_vars(ArchReturn)
    /\ WF_vars(ArchPop)
    /\ WF_vars(Exit)
    /\ WF_vars(WriteCheckpointOpen)
    /\ WF_vars(WriteCheckpointWrite)

FairSpec == Init /\ [][Next]_vars /\ Fairness

----------------------------------------------------------------------------
(* The codec *)

(* A uint64_t is kept as its eight bytes: val[k] is (val >> 8k) & 0xFF.   *)
(* A buffer is its bytes buf[0] .. buf[7].  All shifts of the codec are   *)
(* multiples of 8, so every expression of the source is a choice of bytes. *)
Bytes8(b0, b1, b2, b3, b4, b5, b6, b7) ==
    LET t == <<b0, b1, b2, b3, b4, b5, b6, b7>> IN [k \in 0..7 |-> t[k + 1]]

(* (val >> shift) & 0xFF *)
ShiftByte(val, shift) == val[shift \div 8]

(* b0 | (b1 << 8) | ... | (b7 << 56) for bytes b0 .. b7 *)
OrShifted(b0, b1, b2, b3, b4, b5, b6, b7) == Bytes8(b0, b1, b2, b3, b4, b5, b6, b7)

(* b | 0x80, b & 0x7F and (b & 0x80) == 0x80 on one byte *)
Or80(b) == IF b >= 128 THEN b ELSE b + 128
And7F(b) == b % 128
Has80(b) == b >= 128

(* ZERO_SCN, the all-ones value of typescn *)
ZERO_SCN == Bytes8(255, 255, 255, 255, 255, 255, 255, 255)

(* the test that opens readSCN*: buf[0] .. buf[5] are all 0xFF *)
IsSentinel(buf) == \A i \in 0..5 : buf[i] = 255

read16Little(buf) == OrShifted(buf[0], buf[1], 0, 0, 0, 0, 0, 0)
read16Big(buf) == OrShifted(buf[1], buf[0], 0, 0, 0, 0, 0, 0)
read32Little(buf) == OrShifted(buf[0], buf[1], buf[2], buf[3], 0, 0, 0, 0)
read32Big(buf) == OrShifted(buf[3], buf[2], buf[1], buf[0], 0, 0, 0, 0)

(* variant of read56Little: the seventh byte is not read *)
read56Little_SixBytes(buf) ==
    OrShifted(buf[0], buf[1], buf[2], buf[3], buf[4], buf[5], 0, 0)

read56Little(buf) == OrShifted(buf[0], buf[1], buf[2], buf[3], buf[4], buf[5], buf[6], 0)
read56Big(buf) == OrShifted(buf[6], buf[5], buf[4], buf[3], buf[2], buf[1], buf[0], 0)
read64Little(buf) ==
    OrShifted(buf[0], buf[1], buf[2], buf[3], buf[4], buf[5], buf[6], buf[7])
read64Big(buf) ==
    OrShifted(buf[7], buf[6], buf[5], buf[4], buf[3], buf[2], buf[1], buf[0])

readSCNLittle(buf) ==
    IF IsSentinel(buf) THEN ZERO_SCN
    ELSE IF Has80(buf[5])
    THEN OrShifted(buf[0], buf[1], buf[2], buf[3], buf[6], buf[7], buf[4], And7F(buf[5]))
    ELSE OrShifted(buf[0], buf[1], buf[2], buf[3], buf[4], buf[5], 0, 0)

readSCNBig(buf) ==
    IF IsSentinel(buf) THEN ZERO_SCN
    ELSE IF Has80(buf[0])
    THEN OrShifted(buf[5], buf[4], buf[3], buf[2], buf[7], buf[6], buf[1], And7F(buf[0]))
    ELSE OrShifted(buf[5], buf[4], buf[3], buf[2], buf[1], buf[0], 0, 0)

readSCNrLittle(buf) ==
    IF IsSentinel(buf) THEN ZERO_SCN
    ELSE IF Has80(buf[1])
    THEN OrShifted(buf[2], buf[3], buf[4], buf[5], 0, 0, buf[0], And7F(buf[1]))
    ELSE OrShifted(buf[2], buf[3], buf[4], buf[5], buf[0], buf[1], 0, 0)

readSCNrBig(buf) ==
    IF IsSentinel(buf) THEN ZERO_SCN
    ELSE IF Has80(buf[1])
    THEN OrShifted(buf[5], buf[4], buf[3], buf[2], 0, 0, buf[1], And7F(buf[0]))
    ELSE OrShifted(buf[5], buf[4], buf[3], buf[2], buf[1], buf[0], 0, 0)

write16Little(buf, val) ==
    [buf EXCEPT ![0] = ShiftByte(val, 0), ![1] = ShiftByte(val, 8)]
write16Big(buf, val) ==
    [buf EXCEPT ![0] = ShiftByte(val, 8), ![1] = ShiftByte(val, 0)]
write32Little(buf, val) ==
    [buf EXCEPT ![0] = ShiftByte(val, 0), ![1] = ShiftByte(val, 8),
                ![2] = ShiftByte(val, 16), ![3] = ShiftByte(val, 24)]
write32Big(buf, val) ==
    [buf EXCEPT ![0] = ShiftByte(val, 24), ![1] = ShiftByte(val, 16),
                ![2] = ShiftByte(val, 8), ![3] = ShiftByte(val, 0)]
write56Little(buf, val) ==
    [buf EXCEPT ![0] = ShiftByte(val, 0), ![1] = ShiftByte(val, 8),
                ![2] = ShiftByte(val, 16), ![3] = ShiftByte(val, 24),
                ![4] = ShiftByte(val, 32), ![5] = ShiftByte(val, 40),
                ![6] = ShiftByte(val, 48)]
write56Big(buf, val) ==
    [buf EXCEPT ![0] = ShiftByte(val, 48), ![1] = ShiftByte(val, 40),
                ![2] = ShiftByte(val, 32), ![3] = ShiftByte(val, 24),
                ![4] = ShiftByte(val, 16), ![5] = ShiftByte(val, 8),
                ![6] = ShiftByte(val, 0)]
write64Little(buf, val) ==
    [buf EXCEPT ![0] = ShiftByte(val, 0), ![1] = ShiftByte(val, 8),
                ![2] = ShiftByte(val, 16), ![3] = ShiftByte(val, 24),
                ![4] = ShiftByte(val, 32), ![5] = ShiftByte(val, 40),
                ![6] = ShiftByte(val, 48), ![7] = ShiftByte(val, 56)]
write64Big(buf, val) ==
    [buf EXCEPT ![0] = ShiftByte(val, 56), ![1] = ShiftByte(val, 48),
                ![2] = ShiftByte(val, 40), ![3] = ShiftByte(val, 32),
                ![4] = ShiftByte(val, 24), ![5] = ShiftByte(val, 16),
                ![6] = ShiftByte(val, 8), ![7] = ShiftByte(val, 0)]

(* variant of IsShortSCN: the short form is chosen below 2^48 *)
IsShortSCN_Below48(val) == val[7] = 0 /\ val[6] = 0

(* val < 0x800000000000 *)
IsShortSCN(val) == val[7] = 0 /\ val[6] = 0 /\ val[5] < 128

writeSCNLittle(buf, val) ==
    IF IsShortSCN(val)
    THEN [buf EXCEPT ![0] = ShiftByte(val, 0), ![1] = ShiftByte(val, 8),
                     ![2] = ShiftByte(val, 16), ![3] = ShiftByte(val, 24),
                     ![4] = ShiftByte(val, 32), ![5] = ShiftByte(val, 40)]
    ELSE [buf EXCEPT ![0] = ShiftByte(val, 0), ![1] = ShiftByte(val, 8),
                     ![2] = ShiftByte(val, 16), ![3] = ShiftByte(val, 24),
                     ![4] = ShiftByte(val, 48), ![5] = Or80(ShiftByte(val, 56)),
                     ![6] = ShiftByte(val, 32), ![7] = ShiftByte(val, 40)]

writeSCNBig(buf, val) ==
    IF IsShortSCN(val)
    THEN [buf EXCEPT ![5] = ShiftByte(val, 0), ![4] = ShiftByte(val, 8),
                     ![3] = ShiftByte(val, 16), ![2] = ShiftByte(val, 24),
                     ![1] = ShiftByte(val, 32), ![0] = ShiftByte(val, 40)]
    ELSE [buf EXCEPT ![5] = ShiftByte(val, 0), ![4] = ShiftByte(val, 8),
                     ![3] = ShiftByte(val, 16), ![2] = ShiftByte(val, 24),
                     ![1] = ShiftByte(val, 48), ![0] = Or80(ShiftByte(val, 56)),
                     ![7] = ShiftByte(val, 32), ![6] = ShiftByte(val, 40)]

(* the function table: the pointers are set to the Little functions by the *)
(* constructor and to the Big functions by initialize                      *)
readSCN(bigEndian, buf) == IF bigEndian THEN readSCNBig(buf) ELSE readSCNLittle(buf)
readSCNr(bigEndian, buf) == IF bigEndian THEN readSCNrBig(buf) ELSE readSCNrLittle(buf)
writeSCN(bigEndian, buf, val) ==
    IF bigEndian THEN writeSCNBig(buf, val) ELSE writeSCNLittle(buf, val)

Widths == {16, 32, 56, 64}

readWidth(w, bigEndian, buf) ==
    IF w = 16 THEN (IF bigEndian THEN read16Big(buf) ELSE read16Little(buf))
    ELSE IF w = 32 THEN (IF bigEndian THEN read32Big(buf) ELSE read32Little(buf))
    ELSE IF w = 56 THEN (IF bigEndian THEN read56Big(buf) ELSE read56Little(buf))
    ELSE (IF bigEndian THEN read64Big(buf) ELSE read64Little(buf))

writeWidth(w, bigEndian, buf, val) ==
    IF w = 16 THEN (IF bigEndian THEN write16Big(buf, val) ELSE write16Little(buf, val))
    ELSE IF w = 32 THEN (IF bigEndian THEN write32Big(buf, val) ELSE write32Little(buf, val))
    ELSE IF w = 56 THEN (IF bigEndian THEN write56Big(buf, val) ELSE write56Little(buf, val))
    ELSE (IF bigEndian THEN write64Big(buf, val) ELSE write64Little(buf, val))

(* The inputs of the codec.  A value or an encoding is put together from  *)
(* a low half and a high half; the halves hold the bytes on which the     *)
(* branches of the codec turn (0x00, 0x7F, 0x80, 0xFF) and bytes that     *)
(* differ in every position.                                               *)
ByteVals == {0, 127, 128, 255}

LowHalves ==
    {<<0, 0, 0, 0>>, <<255, 255, 255, 255>>, <<1, 2, 3, 4>>, <<1, 2, 0, 0>>,
     <<255, 128, 0, 0>>, <<1, 128, 3, 4>>}

HighHalves == [1..4 -> ByteVals] \cup {<<5, 6, 7, 8>>}

CodecValues ==
    {Bytes8(l[1], l[2], l[3], l[4], h[1], h[2], h[3], h[4]) : l \in LowHalves, h \in HighHalves}

(* the buffer a write is handed: its bytes differ from every byte written *)
FreshBuffer == Bytes8(85, 85, 85, 85, 85, 85, 85, 85)

NoValue == Bytes8(0, 0, 0, 0, 0, 0, 0, 0)

(* val fits the parameter type of the write function of width w *)
InRange(val, w) == \A k \in 0..7 : k >= w \div 8 => val[k] = 0

(* "value": input is a value to write; "bytes": input is an encoding to read *)
CodecInputs ==
    [phase : {"value", "bytes"}, bigEndian : BOOLEAN, width : {0}, input : CodecValues,
     before : {FreshBuffer}, buf : {FreshBuffer}, val : {NoValue}]

InitCodec ==
    /\ Constructed(AbsentFile)
    /\ codec \in CodecInputs
    /\ inventory = NoInventory

(* writeSCN(buf, val) *)
WriteSCN ==
    /\ codec.phase = "value"
    /\ codec' = [codec EXCEPT !.phase = "scn_written",
                              !.buf = writeSCN(codec.bigEndian, codec.buf, codec.input)]
    /\ UNCHANGED <<readerVars, catalogVars, inventory>>

(* readSCN(buf) on the bytes writeSCN produced *)
ReadSCNBack ==
    /\ codec.phase = "scn_written"
    /\ codec' = [codec EXCEPT !.phase = "scn_read_back",
                              !.val = readSCN(codec.bigEndian, codec.buf)]
    /\ UNCHANGED <<readerVars, catalogVars, inventory>>

(* readSCN(buf) on an encoding *)
ReadSCN ==
    /\ codec.phase = "bytes"
    /\ codec' = [codec EXCEPT !.phase = "scn_decoded",
                              !.val = readSCN(codec.bigEndian, codec.input)]
    /\ UNCHANGED <<readerVars, catalogVars, inventory>>

(* readSCNr(buf) on an encoding *)
ReadSCNr ==
    /\ codec.phase = "bytes"
    /\ codec' = [codec EXCEPT !.phase = "scnr_decoded",
                              !.val = readSCNr(codec.bigEndian, codec.input)]
    /\ UNCHANGED <<readerVars, catalogVars, inventory>>

(* writeSCN(buf, val) of the value readSCN returned *)
WriteSCNBack ==
    /\ codec.phase = "scn_decoded"
    /\ codec' = [codec EXCEPT !.phase = "scn_rewritten",
                              !.buf = writeSCN(codec.bigEndian, codec.buf, codec.val)]
    /\ UNCHANGED <<readerVars, catalogVars, inventory>>

(* write16, write32, write56 or write64 *)
WriteWidth ==
    /\ codec.phase = "value"
    /\ \E w \in Widths :
         /\ InRange(codec.input, w)
         /\ codec' = [codec EXCEPT !.phase = "width_written", !.width = w,
                                   !.buf = writeWidth(w, codec.bigEndian, codec.buf, codec.input)]
    /\ UNCHANGED <<readerVars, catalogVars, inventory>>

(* read16, read32, read56 or read64 on the bytes the write produced *)
ReadWidthBack ==
    /\ codec.phase = "width_written"
    /\ codec' = [codec EXCEPT !.phase = "width_read_back",
                              !.val = readWidth(codec.width, codec.bigEndian, codec.buf)]
    /\ UNCHANGED <<readerVars, catalogVars, inventory>>

NextCodec ==
    \/ WriteSCN
    \/ ReadSCNBack
    \/ ReadSCN
    \/ ReadSCNr
    \/ WriteSCNBack
    \/ WriteWidth
    \/ ReadWidthBack

SpecCodec == InitCodec /\ [][NextCodec]_vars

----------------------------------------------------------------------------
(* The catalog *)

(* the OracleObject instances addToDict may be handed: id tells apart the *)
(* instances that carry the same objn                                     *)
Objects == [objn : 1..MaxObjn, id : 1..MaxObjects]

(* objectMap[key]: operator[] of the map adds the key with a null pointer *)
(* when the map does not hold it, and yields the entry                     *)
MapSubscript(map, key) ==
    IF key \in DOMAIN map THEN map ELSE map @@ (key :> NullObject)

(* variant of AddToDictResult: the entry is assigned whatever it holds *)
AddToDictResult_LastWins(map, object) ==
    [MapSubscript(map, object.objn) EXCEPT ![object.objn] = object]

(* addToDict: the map after the call *)
AddToDictResult(map, object) ==
    LET m == MapSubscript(map, object.objn)
    IN  IF m[object.objn] = NullObject
        THEN [m EXCEPT ![object.objn] = object]
        ELSE m

InitCatalog ==
    /\ Constructed(AbsentFile)
    /\ codec = NoCodec
    /\ inventory = NoInventory

(* addToDict(object) *)
AddToDict ==
    /\ \E object \in Objects :
         /\ objectMap' = AddToDictResult(objectMap, object)
         /\ inserted' =
              IF object.objn \in DOMAIN inserted
              THEN [inserted EXCEPT ![object.objn].latest = object]
              ELSE inserted @@ (object.objn :> [first |-> object, latest |-> object])
    /\ UNCHANGED <<readerVars, codec, inventory, looked, tables>>

(* checkDict(objn, objd) *)
CheckDict ==
    /\ \E objn \in 1..MaxObjn :
         /\ objectMap' = MapSubscript(objectMap, objn)
         /\ looked' = [objn |-> objn, object |-> objectMap'[objn]]
    /\ UNCHANGED <<readerVars, codec, inventory, inserted, tables>>

NextCatalog ==
    \/ AddToDict
    \/ CheckDict

SpecCatalog == InitCatalog /\ [][NextCatalog]_vars

----------------------------------------------------------------------------
(* The table schema *)

(* DATAOBJ# of a row for which isNull(1) holds *)
NullObjd == 0

(* object->addColumn(column): the column goes to the end of the list *)
AddColumn(columns, column) == Append(columns, column)

(* the loop over the rows of the column query *)
RECURSIVE ColumnLoop(_, _, _)
ColumnLoop(cols, i, object) ==
    IF i > Len(cols)
    THEN object
    ELSE LET numPk == cols[i]
             column == [numPk |-> numPk]
         IN  ColumnLoop(cols, i + 1,
                        [object EXCEPT !.totalPk = @ + numPk,
                                       !.totalCols = @ + 1,
                                       !.columns = AddColumn(@, column)])

(* variant of TableObject: the object has no objd and no totals *)
TableObject_Bare(row) ==
    [objn |-> row.objn, objd |-> NullObjd, columns |-> <<>>,
     totalCols |-> 0, totalPk |-> 0]

(* the OracleObject built for a row with an objd, as handed to addToDict *)
TableObject(row) ==
    ColumnLoop(row.cols, 1,
               [objn |-> row.objn, objd |-> row.objd, columns |-> <<>>,
                totalCols |-> 0, totalPk |-> 0])

(* the loop over the rows of the table query: a row without an objd is  *)
(* skipped, any other is given its columns and handed to addToDict      *)
RECURSIVE AddTableLoop(_, _, _)
AddTableLoop(rows, i, r) ==
    IF i > Len(rows)
    THEN r
    ELSE LET row == rows[i]
         IN  IF row.objd = NullObjd
             THEN AddTableLoop(rows, i + 1, [r EXCEPT !.skipped = @ \cup {row.objn}])
             ELSE AddTableLoop(rows, i + 1,
                               [r EXCEPT !.map = AddToDictResult(@, TableObject(row)),
                                         !.added = @ \cup {row.objn}])

AddTableResult(map, rows) ==
    AddTableLoop(rows, 1, [map |-> map, added |-> {}, skipped |-> {}])

(* The NUMPK of the rows a column query yields: no column, one key     *)
(* column, a column and a key column, two key columns.                 *)
ColumnRows == {<<>>, <<1>>, <<0, 1>>, <<1, 1>>}

(* The rows the table query yields, each with the rows of its column   *)
(* query: OBJ# is the key of SYS.TAB$, so no two rows have the same    *)
(* objn.                                                                *)

TableRows ==
    UNION {{r \in [1..n -> [objn : 1..MaxObjn, objd : {NullObjd, 1}, cols : ColumnRows]] :
              \A i \in 1..n, j \in 1..n : i # j => r[i].objn # r[j].objn}
           : n \in 0..MaxTables}

InitTables ==
    /\ Constructed(AbsentFile)
    /\ codec = NoCodec
    /\ inventory = NoInventory

(* addTable(mask, options): rows are the rows read before the call ends, *)
(* thrown tells whether it ends by an SQLException (in the table query   *)
(* or in a column query), which is caught and logged                      *)
AddTable ==
    /\ \E rows \in TableRows, thrown \in BOOLEAN :
         LET r == AddTableResult(objectMap, rows)
         IN  /\ objectMap' = r.map
             /\ tables' = [called |-> TRUE, failed |-> thrown,
                           added |-> r.added, skipped |-> r.skipped]
    /\ UNCHANGED <<readerVars, codec, inventory, inserted, looked>>

NextTables == AddTable

SpecTables == InitTables /\ [][NextTables]_vars

----------------------------------------------------------------------------
(* The online log inventory *)

(* The rows of the V$LOGFILE query, which orders them by GROUP#: every   *)
(* list of at most MaxRows rows with the groups in ascending order.       *)
LogfileRows ==
    UNION {{r \in [1..n -> [group : 1..MaxGroup, exists : BOOLEAN]] :
              \A i \in 1..n, j \in 1..n : i < j => r[i].group <= r[j].group}
           : n \in 0..MaxRows}

InitInventory ==
    /\ Constructed(AbsentFile)
    /\ codec = NoCodec
    /\ inventory \in [phase : {"rows"}, rows : LogfileRows,
                      result : {OnlineLogGetListResult(<<>>)}]

(* onlineLogGetList() on the rows *)
ListOnlineLogs ==
    /\ inventory.phase = "rows"
    /\ inventory' = [inventory EXCEPT !.phase = "listed",
                                      !.result = OnlineLogGetListResult(inventory.rows)]
    /\ UNCHANGED <<readerVars, catalogVars, codec>>

NextInventory == ListOnlineLogs

SpecInventory == InitInventory /\ [][NextInventory]_vars

----------------------------------------------------------------------------
(* Properties *)

Loaded == [sequence |-> databaseSequence, scn |-> databaseScn, resetlogs |-> resetlogs]

SetMin(S) == CHOOSE x \in S : \A y \in S : x <= y

FirstSequences == {transactionHeap[i] : i \in 1..Len(transactionHeap)}

(* C1: when the process dies while a save has truncated the file and not  *)
(* yet rewritten it, the next load yields the record the file held before *)
(* the save or the record the save was writing.                            *)
AtomicCheckpoint ==
    [][(pc = "crashed" /\ pc' = "constructed" /\ saving.active)
         => Loaded' \in {ReadCheckpoint(saving.before), ReadCheckpoint(saving.after)}]_vars

(* C2: every checkpoint written holds a sequence that is at most          *)
(* databaseSequence and at most the firstSequence of every open            *)
(* transaction.                                                            *)
CheckpointNotAhead ==
    [][(file' # file /\ file'.kind = "json")
         => /\ file'.sequence <= databaseSequence'
            /\ \A f \in FirstSequences' : file'.sequence <= f]_vars

CheckpointNotAheadWitness ==
    /\ pc \in {"online_search", "arch_pop", "done"}
    /\ lastSave = pc
    /\ file.kind = "json"
    /\ transactionHeap # <<>>
    /\ file.sequence < databaseSequence

(* C3: a save writes the database name, the smallest firstSequence of the *)
(* open transactions (databaseSequence when there is none), the scn and    *)
(* the resetlogs of the reader.                                            *)
SaveWritesMinSequence ==
    [][(file' # file /\ file'.kind = "json")
         => file' = [kind |-> "json", database |-> database,
                     sequence |-> IF transactionHeap = <<>> THEN databaseSequence
                                  ELSE SetMin(FirstSequences),
                     scn |-> databaseScn, resetlogs |-> resetlogs]]_vars

SaveWritesMinSequenceWitness ==
    /\ pc = "done"
    /\ lastSave = "done"
    /\ databaseSequence = 3
    /\ transactionHeap = <<1, 2>>
    /\ file = [kind |-> "json", database |-> database, sequence |-> 1, scn |-> 2, resetlogs |-> 1]

(* C4: when processLog of the online log of sequence s returns REDO_OK    *)
(* and shutdown is not set, databaseSequence becomes s + 1 and             *)
(* writeCheckpoint(false) runs before the online loop goes on; it writes a *)
(* sequence >= s when no open transaction began before s.                  *)
OnlineOkSaves ==
    /\ [][(OnlineReturn /\ ret' = REDO_OK /\ ~shutdown)
            => /\ databaseSequence' = databaseSequence + 1
               /\ pc' = "wc_open"
               /\ wc'.atShutdown = FALSE
               /\ wc'.ret = "online_search"]_vars
    /\ [][(pc \in {"wc_open", "wc_write"} /\ wc.ret = "online_search")
            => pc' \in {"wc_open", "wc_write", "online_search"}]_vars
    /\ [][(pc = "wc_write" /\ wc.ret = "online_search" /\ pc' = "online_search")
            => /\ file'.kind = "json"
               /\ (\A f \in FirstSequences : f >= databaseSequence - 1)
                    => file'.sequence >= databaseSequence - 1]_vars

OnlineOkSavesWitness ==
    /\ pc = "online_search"
    /\ lastSave = "online_search"
    /\ ret = REDO_OK
    /\ ~shutdown
    /\ databaseSequence = 2
    /\ file.kind = "json"
    /\ file.sequence >= 1

(* C5: when the online read of sequence s returned                         *)
(* REDO_WRONG_SEQUENCE_SWITCHED and the archive list fetched next holds s, *)
(* the archive loop clones the online handle into the archived handle of   *)
(* s and processes it (no error); REDO_OK then makes databaseSequence      *)
(* s + 1.                                                                  *)
OverwriteHandoff ==
    /\ [][(ArchLoop /\ redo.kind = "online" /\ ret = REDO_WRONG_SEQUENCE_SWITCHED
             /\ archiveRedoQueue # <<>> /\ Head(archiveRedoQueue).sequence = databaseSequence)
            => /\ archiveRedoQueue' # <<>>
               /\ Head(archiveRedoQueue').cloned
               /\ Head(archiveRedoQueue').sequence = databaseSequence
               /\ redo' = ArchRedo
               /\ pc' = IF shutdown THEN "exit" ELSE "arch_proc"]_vars
    /\ [][(ArchReturn /\ ret' = REDO_OK /\ Head(archiveRedoQueue).cloned)
            => /\ databaseSequence' = Head(archiveRedoQueue).sequence + 1
               /\ pc' # "fatal"]_vars

OverwriteHandoffWitness ==
    /\ pc = "arch_pop"
    /\ Head(archiveRedoQueue).cloned
    /\ ret = REDO_OK
    /\ databaseSequence = Head(archiveRedoQueue).sequence + 1

(* C6: after the online read of sequence s returned                        *)
(* REDO_WRONG_SEQUENCE_SWITCHED, the archived log of s is dispatched only  *)
(* with the online handle cloned into it, in whichever pass it turns up.   *)
HandoffRemembered ==
    [][(ArchLoop /\ pc' = "arch_proc" /\ ret = REDO_WRONG_SEQUENCE_SWITCHED)
         => Head(archiveRedoQueue').cloned]_vars

(* C7: when the handle on top of the archive queue has a sequence above   *)
(* databaseSequence, the archive loop ends with a fatal error: nothing is  *)
(* dispatched, databaseSequence stays and no checkpoint is written.        *)
SequenceGapFatal ==
    [][(ArchLoop /\ archiveRedoQueue # <<>>
          /\ Head(archiveRedoQueue).sequence > databaseSequence)
         => /\ pc' = "fatal"
            /\ UNCHANGED <<databaseSequence, file, wc, lastSave, previousCheckpoint,
                           logsProcessed, ret, transactionHeap>>]_vars

SequenceGapFatalWitness ==
    /\ pc = "fatal"
    /\ redo = ArchRedo
    /\ archiveRedoQueue # <<>>
    /\ Head(archiveRedoQueue).sequence > databaseSequence
    /\ lastSave = "none"

(* C8: a handle on top of the archive queue whose sequence is below        *)
(* databaseSequence is removed from the queue.                             *)
StaleArchiveDropped ==
    [][(ArchLoop /\ archiveRedoQueue # <<>>
          /\ Head(archiveRedoQueue).sequence < databaseSequence)
         => archiveRedoQueue' = Tail(archiveRedoQueue)]_vars

(* C9: once shutdown is set, the reader thread eventually leaves run():   *)
(* by the final writeCheckpoint(true), or by a fatal error or a refused    *)
(* start.                                                                  *)
ShutdownLiveness ==
    shutdown ~> (pc \in {"done", "fatal", "refused"})

(* C10: while no online handle has the sequence databaseSequence or a     *)
(* higher one and shutdown is not set, the online loop stays in its wait:  *)
(* no log is dispatched, no checkpoint written, no error raised and        *)
(* databaseSequence is unchanged.                                          *)
IdlePath ==
    [][((OnlineSearch \/ Idle) /\ ~shutdown
          /\ \A g \in DOMAIN onlineRedoSet : onlineRedoSet[g] < databaseSequence)
         => /\ pc' = "idle"
            /\ redo' = NoRedo
            /\ UNCHANGED <<databaseSequence, file, wc, lastSave, previousCheckpoint,
                           logsProcessed, ret, transactionHeap, archiveRedoQueue>>]_vars

IdlePathWitness ==
    /\ pc = "idle"
    /\ ~shutdown
    /\ lastSave = "online_search"
    /\ onlineRedoSet # <<>>
    /\ \A g \in DOMAIN onlineRedoSet : onlineRedoSet[g] < databaseSequence

(* C11: when processLog of an online log returns a result other than      *)
(* REDO_OK and REDO_WRONG_SEQUENCE_SWITCHED, or processLog of an archived  *)
(* log returns a result other than REDO_OK, run() ends with an error:      *)
(* databaseSequence is not advanced, writeCheckpoint is not called, and    *)
(* nothing is written afterwards.                                          *)
FatalReadOutcomes ==
    /\ [][(OnlineReturn /\ ret' # REDO_OK /\ ret' # REDO_WRONG_SEQUENCE_SWITCHED)
            => /\ pc' = "fatal"
               /\ UNCHANGED <<databaseSequence, file, wc, lastSave, previousCheckpoint>>]_vars
    /\ [][(ArchReturn /\ ret' # REDO_OK)
            => /\ pc' = "fatal"
               /\ UNCHANGED <<databaseSequence, file, wc, lastSave, previousCheckpoint>>]_vars
    /\ [][pc = "fatal"
            => /\ pc' = "fatal"
               /\ UNCHANGED <<databaseSequence, file, wc, lastSave, previousCheckpoint>>]_vars

FatalReadOutcomesWitness ==
    /\ pc = "fatal"
    /\ redo = ArchRedo
    /\ logsProcessed
    /\ ret = REDO_WRONG_SEQUENCE_SWITCHED
    /\ archiveRedoQueue # <<>>
    /\ Head(archiveRedoQueue).sequence = databaseSequence

(* C12: initialize refuses whenever the loaded resetlogs is not 0 and      *)
(* differs from the RESETLOGS_ID it read, and then leaves resetlogs,       *)
(* databaseSequence and databaseScn as loaded; when the loaded resetlogs   *)
(* is 0 or equal to the RESETLOGS_ID it read, resetlogs becomes that       *)
(* RESETLOGS_ID.                                                           *)
IncarnationGuard ==
    [][Initialize
         => /\ (resetlogs # 0 /\ currentResetlogs' # 0 /\ currentResetlogs' # resetlogs)
                 => /\ pc' = "refused"
                    /\ UNCHANGED <<resetlogs, databaseSequence, databaseScn>>
            /\ (currentResetlogs' # 0 /\ (resetlogs = 0 \/ resetlogs = currentResetlogs'))
                 => resetlogs' = currentResetlogs']_vars

IncarnationGuardWitness ==
    /\ pc = "refused"
    /\ resetlogs = 2
    /\ currentResetlogs = 1
    /\ databaseSequence = 2
    /\ databaseScn = 2

(* C13: after a successful initialize, databaseSequence is the sequence of *)
(* the checkpoint whenever that is not 0 (the sequence of the CURRENT log  *)
(* only otherwise), and neither databaseSequence nor databaseScn is 0.      *)
BootstrapSequence ==
    [][(Initialize /\ pc' = "run")
         => /\ databaseSequence # 0 => databaseSequence' = databaseSequence
            /\ databaseSequence' # 0
            /\ databaseScn' # 0]_vars

(* C14: after construction the three fields hold what the file holds when  *)
(* the file exists, parses and names the configured database, and are all  *)
(* 0 when the file is absent, empty, malformed or names another database;  *)
(* construction always completes.                                          *)
CheckpointLoad ==
    /\ [](pc = "constructed"
            => Loaded = IF file.kind = "json" /\ file.database = database
                        THEN [sequence |-> file.sequence, scn |-> file.scn,
                              resetlogs |-> file.resetlogs]
                        ELSE [sequence |-> 0, scn |-> 0, resetlogs |-> 0])
    /\ [][pc = "crashed" => pc' = "constructed"]_vars

CheckpointLoadWitness ==
    /\ pc = "constructed"
    /\ file.kind = "empty"
    /\ Loaded = [sequence |-> 0, scn |-> 0, resetlogs |-> 0]

(* the escape bit of an SCN encoding: the high bit of byte 5 in            *)
(* little-endian order, of byte 0 in big-endian order                      *)
EscapeBit(bigEndian, buf) == IF bigEndian THEN buf[0] >= 128 ELSE buf[5] >= 128

(* C15: for a value below 2^63 other than ZERO_SCN, readSCN of the bytes   *)
(* writeSCN produced returns the value.                                    *)
SCNWriteRead ==
    (codec.phase = "scn_read_back" /\ codec.input[7] < 128 /\ codec.input # ZERO_SCN)
        => codec.val = codec.input

(* C16: for an encoding whose decoded value is not ZERO_SCN, writeSCN of   *)
(* the value readSCN returned reproduces the encoding: its 6 bytes when    *)
(* the escape bit is clear, its 8 bytes when the escape bit is set.        *)
SCNReadWrite ==
    (codec.phase = "scn_rewritten" /\ codec.val # ZERO_SCN)
        => \A i \in 0..7 :
             (i <= 5 \/ EscapeBit(codec.bigEndian, codec.input)) => codec.buf[i] = codec.input[i]

(* C17: writeSCN writes the 8-byte form with the escape bit set exactly    *)
(* when the value is at least 2^47; below 2^47 it writes 6 bytes with the  *)
(* escape bit clear and leaves bytes 6 and 7 of the buffer as they were.   *)
SCNFormBoundary ==
    codec.phase = "scn_written"
        => LET v == codec.input
               below == v[7] = 0 /\ v[6] = 0 /\ v[5] < 128
           IN  /\ \A i \in 0..5 : codec.buf[i] # codec.before[i]
               /\ IF below
                  THEN /\ ~EscapeBit(codec.bigEndian, codec.buf)
                       /\ codec.buf[6] = codec.before[6]
                       /\ codec.buf[7] = codec.before[7]
                  ELSE /\ EscapeBit(codec.bigEndian, codec.buf)
                       /\ codec.buf[6] # codec.before[6]
                       /\ codec.buf[7] # codec.before[7]

SCNFormBoundaryWitness ==
    /\ codec.phase = "scn_written"
    /\ ~codec.bigEndian
    /\ codec.input = Bytes8(0, 0, 0, 0, 0, 128, 0, 0)
    /\ codec.buf = Bytes8(0, 0, 0, 0, 0, 128, 0, 128)

(* C18: for each width w of 16, 32, 56, 64, both byte orders and every     *)
(* value below 2^w, the read of width w returns the value from the bytes   *)
(* the write of width w produced, and the write changes the first w/8      *)
(* bytes of the buffer and no other.                                       *)
PrimitiveRoundTrip ==
    /\ codec.phase = "width_read_back" => codec.val = codec.input
    /\ codec.phase \in {"width_written", "width_read_back"}
         => \A i \in 0..7 :
              IF i < codec.width \div 8
              THEN codec.buf[i] # codec.before[i]
              ELSE codec.buf[i] = codec.before[i]

PrimitiveRoundTripWitness ==
    /\ codec.phase = "width_read_back"
    /\ codec.width = 56
    /\ ~codec.bigEndian
    /\ codec.input = Bytes8(1, 2, 3, 4, 255, 128, 127, 0)
    /\ codec.val = codec.input

(* C19: checkDict returns for an objn the descriptor given to the first    *)
(* addToDict for that objn, and an addToDict for an objn that was given    *)
(* before leaves the map as it is.                                         *)
CatalogFirstWins ==
    /\ [](\A objn \in DOMAIN inserted :
            objn \in DOMAIN objectMap /\ objectMap[objn] = inserted[objn].first)
    /\ [][(CheckDict /\ looked'.objn \in DOMAIN inserted)
            => looked'.object = inserted[looked'.objn].first]_vars
    /\ [][(AddToDict /\ DOMAIN inserted' = DOMAIN inserted) => objectMap' = objectMap]_vars

CatalogFirstWinsWitness ==
    /\ 1 \in DOMAIN inserted
    /\ inserted[1].latest # inserted[1].first
    /\ looked.objn = 1
    /\ looked.object = inserted[1].first
    /\ objectMap[1] = inserted[1].first

(* C20: checkDict leaves the map as it is: the same keys with the same     *)
(* values.                                                                 *)
LookupPure ==
    [][CheckDict => objectMap' = objectMap]_vars

(* the groups of a list of rows, and the rows of a group whose file exists *)
GroupsOf(rows) == {rows[i].group : i \in 1..Len(rows)}
ReadableOf(rows, g) == {i \in 1..Len(rows) : rows[i].group = g /\ rows[i].exists}

(* C21: onlineLogGetList fails when some group of the rows has no member  *)
(* whose file exists; otherwise it ends with one handle per group, opened *)
(* on the first member of the group whose file exists.                    *)
OnlineInventory ==
    inventory.phase = "listed"
        => LET rows == inventory.rows
               r == inventory.result
           IN  IF \E g \in GroupsOf(rows) : ReadableOf(rows, g) = {}
               THEN r.thrown
               ELSE /\ ~r.thrown
                    /\ r.handles = {[group |-> g, member |-> SetMin(ReadableOf(rows, g))]
                                      : g \in GroupsOf(rows)}

OnlineInventoryWitness ==
    /\ inventory.phase = "listed"
    /\ inventory.rows = <<[group |-> 1, exists |-> TRUE], [group |-> 2, exists |-> FALSE],
                          [group |-> 3, exists |-> TRUE]>>
    /\ inventory.result.thrown

RECURSIVE SumPk(_)
SumPk(columns) ==
    IF columns = <<>> THEN 0 ELSE Head(columns).numPk + SumPk(Tail(columns))

Catalogued(map) == {objn \in DOMAIN map : map[objn] # NullObject}

(* C22: every table addTable put in the catalog has an objd, totalCols *)
(* equal to the number of its columns and totalPk equal to the sum of  *)
(* their numPk; a call, also one that ends by a failed query, leaves   *)
(* the tables of the catalog as they are, leaves every row it read     *)
(* with an objd in the catalog and inserts no row without an objd.     *)
TablesWellFormed ==
    /\ [](\A objn \in Catalogued(objectMap) :
            /\ objectMap[objn].objn = objn
            /\ objectMap[objn].objd # NullObjd
            /\ objectMap[objn].totalCols = Len(objectMap[objn].columns)
            /\ objectMap[objn].totalPk = SumPk(objectMap[objn].columns))
    /\ [][tables'.called =>
            /\ \A objn \in Catalogued(objectMap) : objectMap'[objn] = objectMap[objn]
            /\ tables'.added \subseteq Catalogued(objectMap')
            /\ \A objn \in tables'.skipped :
                 objn \in Catalogued(objectMap') => objn \in Catalogued(objectMap)]_vars

TablesWellFormedWitness ==
    /\ tables.failed
    /\ tables.added = {1}
    /\ tables.skipped = {2}
    /\ Catalogued(objectMap) = {1}
    /\ objectMap[1].totalCols = 2
    /\ objectMap[1].totalPk = 1

(* C23: when archLogGetList is called the queue holds no handle of an   *)
(* earlier pass; the call fills it only with logs of sequence >=       *)
(* databaseSequence; and the queue hands its handles out in            *)
(* non-decreasing order of sequence.                                   *)
ArchiveQueueFresh ==
    /\ [](pc = "arch_list" => archiveRedoQueue = <<>>)
    /\ [][pc = "arch_list" =>
            \A i \in 1..Len(archiveRedoQueue') :
                archiveRedoQueue'[i].sequence >= databaseSequence]_vars
    /\ [](\A i \in 1..Len(archiveRedoQueue), j \in 1..Len(archiveRedoQueue) :
            i < j => archiveRedoQueue[i].sequence <= archiveRedoQueue[j].sequence)

(* a second archive pass, after a pass that read a log and popped it *)
ArchiveQueueFreshWitness ==
    /\ pc = "arch_loop"
    /\ lastSave = "arch_pop"
    /\ Len(archiveRedoQueue) = 2
    /\ archiveRedoQueue[1].sequence = databaseSequence
    /\ archiveRedoQueue[1].sequence < archiveRedoQueue[2].sequence

(* C24: when writeCheckpoint cannot open the file, the call returns to  *)
(* its caller without an error, the file, databaseSequence, databaseScn *)
(* and resetlogs are as before and previousCheckpoint is not updated:   *)
(* a call made by checkForCheckpoint leaves the checkpoint due, so the  *)
(* next checkForCheckpoint calls writeCheckpoint again.                 *)
CheckpointFailureLocal ==
    [][(pc = "wc_open" /\ pc' \notin {"wc_open", "wc_write"}) =>
         /\ pc' = wc.ret
         /\ pc' # "fatal"
         /\ file' = file
         /\ Loaded' = Loaded
         /\ previousCheckpoint' = previousCheckpoint
         /\ (CheckpointDue(clock, previousCheckpoint)
               => CheckpointDue(clock', previousCheckpoint'))]_vars

(* a checkpoint that was due could not be written and is due still *)
CheckpointFailureLocalWitness ==
    /\ saving.failed
    /\ Processing
    /\ CheckpointDue(clock, previousCheckpoint)
    /\ lastSave # "none"
    /\ file.kind = "json"

(* C25: processLog is called only on a handle whose sequence is        *)
(* databaseSequence when it is called; while run() works,              *)
(* databaseSequence never decreases, and it changes only by one, in    *)
(* the step in which processLog has returned REDO_OK.                  *)
SequenceConsecutive ==
    /\ [][(pc \in {"online_search", "idle", "arch_loop"} /\ Processing') =>
            SequenceOf(redo', onlineRedoSet', archiveRedoQueue') = databaseSequence']_vars
    /\ [][(pc \notin {"constructed", "crashed"} /\ databaseSequence' # databaseSequence) =>
            /\ Processing
            /\ ret' = REDO_OK
            /\ databaseSequence' = databaseSequence + 1]_vars

(* the third log in a row is read, after an online and an archived one *)
SequenceConsecutiveWitness ==
    /\ Processing
    /\ databaseSequence = 3
    /\ SequenceOf(redo, onlineRedoSet, archiveRedoQueue) = 3
    /\ lastSave \in {"arch_pop", "online_search"}
    /\ file.kind = "json"
    /\ file.sequence = 3

(* C26: when writeCheckpoint replaces a record that an earlier call of *)
(* this run has written, the sequence it writes is not smaller than    *)
(* the sequence of the record it replaces.                             *)
CheckpointSequenceMonotonic ==
    [][(pc = "wc_write" /\ pc' # "wc_write" /\ lastSave # "none"
          /\ saving.before.kind = "json") =>
         file'.sequence >= saving.before.sequence]_vars

(* a later save writes a larger sequence than the save before it, with *)
(* a transaction open                                                  *)
CheckpointSequenceMonotonicWitness ==
    /\ pc = "wc_write"
    /\ lastSave # "none"
    /\ saving.before.kind = "json"
    /\ transactionHeap # <<>>
    /\ wc.minSequence > saving.before.sequence
    /\ wc.minSequence < databaseSequence

(* buf with bytes 0..1 swapped and bytes 2..5 reversed *)
SCNrMirror(buf) ==
    Bytes8(buf[1], buf[0], buf[5], buf[4], buf[3], buf[2], buf[6], buf[7])

(* C27: readSCNrBig yields for an encoding what readSCNrLittle yields  *)
(* for its mirror, the encoding with bytes 0..1 swapped and bytes 2..5 *)
(* reversed.                                                           *)
SCNrBigMirrorsLittle ==
    (codec.phase = "scnr_decoded" /\ codec.bigEndian)
        => codec.val = readSCNrLittle(SCNrMirror(codec.input))

(* C28: onlineLogGetList and archLogGetList run their query only while *)
(* the reader has a connection.                                        *)
InventoryNeedsConnection ==
    [][((pc = "online_list" /\ pc' # "online_list")
          \/ (pc = "arch_list" /\ pc' = "arch_loop")) => conn]_vars

(* the log of databaseSequence is in no online handle, some handle is  *)
(* ahead of it                                                         *)
GenerationMissing ==
    /\ Candidates(onlineRedoSet, databaseSequence) = {}
    /\ \E g \in DOMAIN onlineRedoSet : onlineRedoSet[g] > databaseSequence

(* C29: while no online handle has databaseSequence, some handle has a *)
(* higher sequence and the archive query yields no row, the pass goes  *)
(* from the online search to the archive query and back to the top of  *)
(* the outer loop: no error is raised, processLog is not called, no    *)
(* checkpoint is written and databaseSequence stays as it is.          *)
MissingGenerationRepeats ==
    /\ [][(GenerationMissing /\ ~shutdown /\ archiveRedoQueue' = <<>>
             /\ pc \in {"online_search", "idle", "arch_list", "arch_loop"}
             /\ shutdown' = shutdown) =>
            /\ pc' = CASE pc = "online_search" -> "idle"
                       [] pc = "idle" -> "arch_list"
                       [] pc = "arch_list" -> "arch_loop"
                       [] pc = "arch_loop" -> "loop_top"
            /\ databaseSequence' = databaseSequence
            /\ file' = file
            /\ wc' = wc]_vars
    /\ [][(pc = "loop_top" /\ ~shutdown /\ shutdown' = shutdown) =>
            pc' = "online_search"]_vars

(* a pass that found the generation missing is over and the next begins *)
MissingGenerationRepeatsWitness ==
    /\ pc = "loop_top"
    /\ ~shutdown
    /\ ~logsProcessed
    /\ GenerationMissing
    /\ archiveRedoQueue = <<>>
    /\ databaseSequence = 2
    /\ lastSave # "none"

====
